---- MODULE Spec2Model ----
(***************************************************************************)
(* Game result processing and bulk import of Project-RDC.                  *)
(*                                                                         *)
(*   Spec      one screenshot extraction run through a per-game processor  *)
(*             (CoD Gun Game or Marvel Rivals): processPlayers, the CoD    *)
(*             ranking pass, calculateWinners, validateResults.            *)
(*   BulkSpec  the BulkUploadModal component: file selection, removal,     *)
(*             handleProcessAll with its concurrent analyses.              *)
(*                                                                         *)
(* Strings whose content the code inspects (player names, stat values)     *)
(* are sequences of one-character strings.                                 *)
(***************************************************************************)
EXTENDS Integers, Sequences, FiniteSets, TLC

VARIABLES
    game,           \* which GameProcessor handles the extraction
    declared,       \* the stat keys the game declares, in catalog order
    input,          \* codPlayers / mrPlayers: the raw extraction
    pc,             \* position inside the pipeline run
    idx,            \* 1-based index of the next entry of valueArray
    players,        \* codVisionResult.players / mrVisionResult.players
    requiresCheck,  \* the local requiresCheck of processPlayers
    flagged,        \* history: a player so far needed review or failed reconciliation
    dropped,        \* history: indices of valueArray whose reconciliation returned null
    unranked,       \* history: players as they were before the ranking pass
    result,         \* the value processPlayers returned
    winners,        \* the value calculateWinners returned
    outcome,        \* the value validateResults returned
    files,          \* BulkUploadModal: the files state
    fileMap,        \* BulkUploadModal: fileMapRef.current (id -> File)
    isProcessing,   \* BulkUploadModal: the isProcessing state
    open,           \* BulkUploadModal: the open state
    batch,          \* handleProcessAll: the captured pendingFiles
    settled,        \* handleProcessAll: per captured file, what its promise settled to
    bpc,            \* handleProcessAll: position of the running call
    delivered,      \* calls made to onBulkProcessingComplete
    nextId,         \* source of fresh file ids
    rkList,         \* the player list handed to the ranking / winner rule
    rkPrev,         \* the list the last rankPlayersByScore call was given
    rkPasses,       \* consecutive rankPlayersByScore calls applied so far
    rkWinners,      \* the value the last calculateWinners call returned
    rkWon,          \* calculateWinners has been called on (an order of) rkList
    vsGame,         \* which processor's validateStats is called
    vsValue,        \* validateStats: the statValue argument
    vsNumPlayers,   \* validateStats: the numPlayers argument
    vsResult,       \* validateStats: the returned value
    rvResults,      \* BulkReviewModal: props.results
    rvExisting,     \* BulkReviewModal: setIds of props.existingSets
    rvOpen,         \* BulkReviewModal: props.open
    rvSetOptions,   \* BulkReviewModal: the setOptions state
    rvNextNewSetId, \* BulkReviewModal: the nextNewSetId state
    rvAssignments,  \* BulkReviewModal: the assignments state
    rvPicked,       \* history: per result, the set last chosen in its Select
    rvConfirmed,    \* calls made to onConfirm
    smSets,         \* SetManager: the form's sets (useFieldArray fields)
    smHighestSetId, \* SetManager: the highestSetId state
    smConfirms,     \* history: the number of handleBulkReviewConfirm calls
    mvSession,      \* analyzeMvp: the session row's MVP fields
    mvCalls,        \* analyzeMvp: per running call, its position and locals
    mvWrites,       \* history: the calls whose updateMany changed the row
    edRequests,     \* sessionEditRequest rows by id
    edSession,      \* the session row with its sets and matches
    edRevisions,    \* sessionRevision rows
    edNextSetId,    \* the autoincrement of gameSet.setId
    edLast          \* the last approve / reject call and what it returned

pipeVars == <<game, declared, input, pc, idx, players, requiresCheck,
              flagged, dropped, unranked, result, winners, outcome>>
bulkVars == <<files, fileMap, isProcessing, open, batch, settled, bpc,
              delivered, nextId>>
rankVars == <<rkList, rkPrev, rkPasses, rkWinners, rkWon>>
statVars == <<vsGame, vsValue, vsNumPlayers, vsResult>>
reviewVars == <<rvResults, rvExisting, rvOpen, rvSetOptions, rvNextNewSetId,
                rvAssignments, rvPicked, rvConfirmed>>
setVars == <<smSets, smHighestSetId, smConfirms>>
mvpVars == <<mvSession, mvCalls, mvWrites>>
editVars == <<edRequests, edSession, edRevisions, edNextSetId, edLast>>
vars == <<pipeVars, bulkVars, rankVars, statVars, reviewVars, setVars,
          mvpVars, editVars>>

(***************************************************************************)
(* Bounds                                                                  *)
(***************************************************************************)
MaxPlayers == 3
MaxFiles == 3
MaxRankPlayers == 4
MaxPasses == 2
MaxResults == 2
MaxNewSets == 2
MaxCalls == 2
MaxEdits == 2
MaxDecisions == 3
MaxSetId == 4
MaxRounds == 2
MaxBulk == 1

(***************************************************************************)
(* Strings                                                                 *)
(***************************************************************************)
Digits == <<"0", "1", "2", "3", "4", "5", "6", "7", "8", "9">>

IsDigit(c) == \E d \in 1..10 : Digits[d] = c

DigitVal(c) == (CHOOSE d \in 1..10 : Digits[d] = c) - 1

IsWhite(c) == c = " "

RECURSIVE TrimStart(_)
TrimStart(s) ==
    IF s # <<>> /\ IsWhite(Head(s)) THEN TrimStart(Tail(s)) ELSE s

RECURSIVE DigitPrefix(_)
DigitPrefix(s) ==
    IF s # <<>> /\ IsDigit(Head(s)) THEN <<Head(s)>> \o DigitPrefix(Tail(s))
    ELSE <<>>

RECURSIVE DigitsValue(_, _)
DigitsValue(s, acc) ==
    IF s = <<>> THEN acc ELSE DigitsValue(Tail(s), 10 * acc + DigitVal(Head(s)))

NaN == [nan |-> TRUE, val |-> 0]
Num(n) == [nan |-> FALSE, val |-> n]

\* parseInt(string): leading white space, an optional sign, then the longest
\* run of decimal digits; NaN when that run is empty.
ParseInt(s) ==
    LET t == TrimStart(s)
        neg == t # <<>> /\ Head(t) = "-"
        u == IF t # <<>> /\ Head(t) \in {"-", "+"} THEN Tail(t) ELSE t
        d == DigitPrefix(u)
    IN  IF d = <<>> THEN NaN
        ELSE Num(IF neg THEN 0 - DigitsValue(d, 0) ELSE DigitsValue(d, 0))

RECURSIVE NatToString(_)
NatToString(n) ==
    IF n < 10 THEN <<Digits[n + 1]>>
    ELSE NatToString(n \div 10) \o <<Digits[(n % 10) + 1]>>

\* Number.prototype.toString() on the integers the ranking produces.
NumberToString(n) ==
    IF n < 0 THEN <<"-">> \o NatToString(0 - n) ELSE NatToString(n)

ToLower(c) ==
    CASE c = "A" -> "a"
      [] c = "B" -> "b"
      [] c = "N" -> "n"
      [] c = "O" -> "o"
      [] c = "Z" -> "z"
      [] OTHER -> c

RECURSIVE NormalizeName(_)
NormalizeName(s) ==
    IF s = <<>> THEN <<>>
    ELSE IF IsWhite(Head(s)) THEN NormalizeName(Tail(s))
    ELSE <<ToLower(Head(s))>> \o NormalizeName(Tail(s))

IsSubstring(s, t) ==
    \E i \in 0..(Len(t) - Len(s)) : SubSeq(t, i + 1, i + Len(s)) = s

(***************************************************************************)
(* Inputs: the roster and the raw extractions                              *)
(***************************************************************************)
CoD == "CoDGunGame"
Marvel == "MarvelRivals"

\* sessionPlayers: the roster the caller selected.
SessionPlayers ==
    << [playerId |-> 1, playerName |-> <<"A", "n", "n">>],
       [playerId |-> 2, playerName |-> <<"B", "o", "b">>] >>

\* Names as the vision step reads them: a lower-case, truncated reading of
\* Ann with a stray blank, an exact reading of Bob, and a name no roster
\* entry contains.
ExtractedNames == { <<"a", "n", " ">>, <<"B", "o", "b">>, <<"Z">> }

Absent == [present |-> FALSE, value |-> <<>>]
Read(v) == [present |-> TRUE, value |-> v]

\* Raw readings of a stat: missing, three numbers, one unparseable value.
Readings ==
    { Absent, Read(<<"3", "0">>), Read(<<"4", "5">>), Read(<<"1", "2">>),
      Read(<<"x">>) }

\* A player whose name no roster entry matches is dropped whatever its
\* readings are, so it is drawn with a missing and with a numeric reading
\* only.
RawPlayers ==
    { rp \in [name : ExtractedNames, score : Readings] :
        rp.name = <<"Z">> => rp.score \in {Absent, Read(<<"3", "0">>)} }

\* Stat keys a game declares. The CoD source ranks by COD_SCORE while its
\* comments speak of COD_KILLS, and COD_POS may or may not be read from the
\* screenshot, so all three configurations are covered.
DeclaredStats(g) ==
    IF g = CoD
    THEN { <<"COD_SCORE">>, <<"COD_SCORE", "COD_POS">>, <<"COD_KILLS">> }
    ELSE { <<"MR_KILLS">> }

ValueArrays == UNION { [1..n -> RawPlayers] : n \in 0..MaxPlayers }

Extractions ==
    { [shape |-> "team", containers |-> <<>>] }
    \cup { [shape |-> "team",
            containers |-> << [hasValueArray |-> TRUE, valueArray |-> va] >>]
           : va \in [1..1 -> RawPlayers] }
    \cup { [shape |-> "individual", containers |-> <<>>] }
    \cup { [shape |-> "individual",
            containers |-> << [hasValueArray |-> FALSE, valueArray |-> <<>>] >>] }
    \cup { [shape |-> "individual",
            containers |-> << [hasValueArray |-> TRUE, valueArray |-> va] >>]
           : va \in ValueArrays }

(***************************************************************************)
(* Stat catalog, player normalizer, roster reconciler, winner calculator   *)
(***************************************************************************)
CodPosStatId == 12

getStatConfigByFieldKey(key) ==
    CASE key = "COD_POS" -> CodPosStatId
      [] key = "COD_SCORE" -> 11
      [] key = "COD_KILLS" -> 10
      [] OTHER -> 1

isAnalyzedTeamDataArray(data) == data.shape = "team"

IsNumeric(v) == v # <<>> /\ \A i \in 1..Len(v) : IsDigit(v[i])

\* The raw reading of one declared stat of one player blob.
RawReading(raw, key) ==
    IF key = "COD_POS" THEN Read(<<"7">>) ELSE raw.score

Resolvable(rd) == rd.present /\ IsNumeric(rd.value)

processPlayer(raw, decl) ==
    [ player |->
        [ playerId |-> 0,
          name |-> raw.name,
          stats |-> [ i \in 1..Len(decl) |->
                        [ statId |-> getStatConfigByFieldKey(decl[i]),
                          stat |-> decl[i],
                          statValue |->
                              IF Resolvable(RawReading(raw, decl[i]))
                              THEN RawReading(raw, decl[i]).value
                              ELSE <<"0">> ] ] ],
      reqCheckFlag |->
          \E i \in 1..Len(decl) : ~Resolvable(RawReading(raw, decl[i])) ]

NameMatches(extracted, rosterName) ==
    LET e == NormalizeName(extracted)
        r == NormalizeName(rosterName)
    IN  e # <<>> /\ (IsSubstring(e, r) \/ IsSubstring(r, e))

Null == [null |-> TRUE]

validateProcessedPlayer(processed, roster) ==
    LET cands == { i \in 1..Len(roster) :
                     NameMatches(processed.player.name, roster[i].playerName) }
    IN  IF Cardinality(cands) = 1
        THEN LET c == CHOOSE i \in cands : TRUE
             IN  [ playerId |-> roster[c].playerId,
                   name |-> roster[c].playerName,
                   stats |-> processed.player.stats ]
        ELSE Null

\* Index of the first stat with the given key, 0 when there is none
\* (Array.prototype.findIndex, shifted to 1-based).
FindStatIndex(stats, key) ==
    IF \E i \in 1..Len(stats) : stats[i].stat = key
    THEN CHOOSE i \in 1..Len(stats) :
            /\ stats[i].stat = key
            /\ \A j \in 1..(i - 1) : stats[j].stat # key
    ELSE 0

\* stats.find(...)?.statValue || "0": a missing stat and an empty value both
\* read as "0".
StatValueOrZero(p, key) ==
    LET i == FindStatIndex(p.stats, key)
    IN  IF i = 0 \/ p.stats[i].statValue = <<>> THEN <<"0">>
        ELSE p.stats[i].statValue

NumOrZero(x) == IF x.nan THEN 0 ELSE x.val

WinValue(p, key) == NumOrZero(ParseInt(StatValueOrZero(p, key)))

calculateIndividualWinner(ps, statName) ==
    LET best == CHOOSE m \in { WinValue(ps[i], statName) : i \in 1..Len(ps) } :
                    \A i \in 1..Len(ps) : WinValue(ps[i], statName) <= m
    IN  IF ps = <<>> THEN <<>>
        ELSE SelectSeq(ps, LAMBDA p : WinValue(p, statName) = best)

(***************************************************************************)
(* CoD Gun Game: the ranking pass                                          *)
(***************************************************************************)
\* CodScore reading the position stat in place of the score.
CodScore_ReadsPosition(p) == ParseInt(StatValueOrZero(p, "COD_POS"))

CodScore(p) == ParseInt(StatValueOrZero(p, "COD_SCORE"))

\* CompareByScore with the operands of the subtraction exchanged.
CompareByScore_Ascending(a, b) ==
    IF CodScore(a).nan \/ CodScore(b).nan THEN 0
    ELSE CodScore(a).val - CodScore(b).val

\* The comparator of the sort, bKills - aKills; a NaN result counts as 0.
CompareByScore(a, b) ==
    IF CodScore(a).nan \/ CodScore(b).nan THEN 0
    ELSE CodScore(b).val - CodScore(a).val

\* Array.prototype.sort is stable: an element goes behind every element it
\* does not strictly precede.
RECURSIVE InsertSorted(_, _)
InsertSorted(sorted, p) ==
    IF sorted = <<>> THEN <<p>>
    ELSE IF CompareByScore(Head(sorted), p) > 0 THEN <<p>> \o sorted
    ELSE <<Head(sorted)>> \o InsertSorted(Tail(sorted), p)

RECURSIVE SortByScore(_)
SortByScore(ps) ==
    IF ps = <<>> THEN <<>>
    ELSE InsertSorted(SortByScore(SubSeq(ps, 1, Len(ps) - 1)), ps[Len(ps)])

\* WithPosition without the lookup of an existing COD_POS stat.
WithPosition_AlwaysPushes(p, position) ==
    [p EXCEPT !.stats =
        Append(@, [ statId |-> getStatConfigByFieldKey("COD_POS"),
                    stat |-> "COD_POS",
                    statValue |-> NumberToString(position) ])]

\* The body of the map callback: write position into the player's COD_POS.
WithPosition(p, position) ==
    LET i == FindStatIndex(p.stats, "COD_POS")
    IN  IF i > 0
        THEN [p EXCEPT !.stats[i].statValue = NumberToString(position)]
        ELSE [p EXCEPT !.stats =
                 Append(@, [ statId |-> getStatConfigByFieldKey("COD_POS"),
                             stat |-> "COD_POS",
                             statValue |-> NumberToString(position) ])]

\* rankPlayersByScore numbering the sorted players from the last one.
rankPlayersByScore_NumbersFromLast(ps) ==
    LET sortedPlayers == SortByScore(ps)
    IN  [ i \in 1..Len(sortedPlayers) |->
            WithPosition(sortedPlayers[i], Len(sortedPlayers) - i + 1) ]

rankPlayersByScore(ps) ==
    LET sortedPlayers == SortByScore(ps)
    IN  [ i \in 1..Len(sortedPlayers) |-> WithPosition(sortedPlayers[i], i) ]

(***************************************************************************)
(* Result coder and winner rules of the two processors                     *)
(***************************************************************************)
Success == "Success"
CheckRequest == "CheckRequest"
Failed == "Failed"

CheckMessage == "There was some trouble processing some stats."
SuccessMessage == "Results have been successfully imported."

CoDValidateResults(visionPlayers, visionWinners, reqCheck) ==
    IF reqCheck
    THEN [ status |-> CheckRequest,
           data |-> [players |-> visionPlayers, winner |-> visionWinners],
           message |-> CheckMessage ]
    ELSE [ status |-> Success,
           data |-> [players |-> visionPlayers, winner |-> visionWinners],
           message |-> SuccessMessage ]

\* validateResults without the computed lists on the CheckRequest branch.
validateResults_DropsDataOnCheck(visionPlayers, visionWinners, reqCheck) ==
    IF reqCheck
    THEN [ status |-> CheckRequest,
           data |-> [players |-> <<>>, winner |-> <<>>],
           message |-> CheckMessage ]
    ELSE [ status |-> Success,
           data |-> [players |-> visionPlayers, winner |-> visionWinners],
           message |-> SuccessMessage ]

validateResults(visionPlayers, visionWinners, reqCheck) ==
    IF reqCheck
    THEN [ status |-> CheckRequest,
           data |-> [players |-> visionPlayers, winner |-> visionWinners],
           message |-> CheckMessage ]
    ELSE [ status |-> Success,
           data |-> [players |-> visionPlayers, winner |-> visionWinners],
           message |-> SuccessMessage ]

\* calculateWinners with COD_KILLS as the win condition's stat.
CoDCalculateWinners_ByKills(ps) == calculateIndividualWinner(ps, "COD_KILLS")

CoDCalculateWinners(ps) == calculateIndividualWinner(ps, "COD_SCORE")

\* A winner rule that returns every player.
calculateMarvelRivalsWinners_EveryPlayer(ps) == ps

calculateMarvelRivalsWinners(ps) == <<>>

\* validateStats that also defaults a present reading that is not a number.
CoDValidateStats_DefaultsNonNumeric(statValue, numPlayers) ==
    IF ~statValue.present \/ ~IsNumeric(statValue.value)
    THEN [statValue |-> <<"0">>, reqCheck |-> TRUE]
    ELSE [statValue |-> statValue.value, reqCheck |-> FALSE]

CoDValidateStats(statValue, numPlayers) ==
    IF ~statValue.present THEN [statValue |-> <<"0">>, reqCheck |-> TRUE]
    ELSE [statValue |-> statValue.value, reqCheck |-> FALSE]

validateMarvelRivalsStatValue(statValue, numPlayers) ==
    IF ~statValue.present THEN [statValue |-> <<"0">>, reqCheck |-> TRUE]
    ELSE [statValue |-> statValue.value, reqCheck |-> FALSE]

(***************************************************************************)
(* One extraction through a processor                                      *)
(***************************************************************************)
NoResult == [kind |-> "none"]
Threw == [kind |-> "threw"]
Returned(ps, flag) ==
    [kind |-> "returned", processedPlayers |-> ps, reqCheckFlag |-> flag]
NoOutcome == [status |-> "none"]

BulkIdle ==
    /\ files = <<>>
    /\ fileMap = {}
    /\ isProcessing = FALSE
    /\ open = FALSE
    /\ batch = <<>>
    /\ settled = <<>>
    /\ bpc = "idle"
    /\ delivered = <<>>
    /\ nextId = 1

RankIdle ==
    /\ rkList = <<>>
    /\ rkPrev = <<>>
    /\ rkPasses = 0
    /\ rkWinners = <<>>
    /\ rkWon = FALSE

\* numPlayers: number | undefined
NoCount == [present |-> FALSE, value |-> 0]
Count(n) == [present |-> TRUE, value |-> n]

StatIdle ==
    /\ vsGame = CoD
    /\ vsValue = Absent
    /\ vsNumPlayers = NoCount
    /\ vsResult = NoResult

ReviewIdle ==
    /\ rvResults = <<>>
    /\ rvExisting = <<>>
    /\ rvOpen = FALSE
    /\ rvSetOptions = <<>>
    /\ rvNextNewSetId = 1
    /\ rvAssignments = <<>>
    /\ rvPicked = <<>>
    /\ rvConfirmed = <<>>

SetIdle ==
    /\ smSets = <<>>
    /\ smHighestSetId = 0
    /\ smConfirms = 0

\* A nullable column: null, or a value.
NullV == [isNull |-> TRUE, val |-> 0]
Val(v) == [isNull |-> FALSE, val |-> v]

MvpIdle ==
    /\ mvSession = [mvpId |-> NullV, mvpDescription |-> NullV, mvpStats |-> NullV]
    /\ mvCalls = <<>>
    /\ mvWrites = <<>>

EditIdle ==
    /\ edRequests = <<>>
    /\ edSession = [sessionName |-> "", sets |-> <<>>]
    /\ edRevisions = <<>>
    /\ edNextSetId = 1
    /\ edLast = [n |-> 0, op |-> "none", editId |-> 0, error |-> FALSE,
                 failAt |-> 0]

PipeIdle ==
    /\ game = CoD
    /\ declared = <<"COD_SCORE">>
    /\ input = [shape |-> "team", containers |-> <<>>]
    /\ pc = "off"
    /\ idx = 1
    /\ players = <<>>
    /\ requiresCheck = FALSE
    /\ flagged = FALSE
    /\ dropped = {}
    /\ unranked = <<>>
    /\ result = NoResult
    /\ winners = <<>>
    /\ outcome = NoOutcome

Init ==
    /\ game \in {CoD, Marvel}
    /\ declared \in DeclaredStats(game)
    /\ input \in Extractions
    /\ pc = "call"
    /\ idx = 1
    /\ players = <<>>
    /\ requiresCheck = FALSE
    /\ flagged = FALSE
    /\ dropped = {}
    /\ unranked = <<>>
    /\ result = NoResult
    /\ winners = <<>>
    /\ outcome = NoOutcome
    /\ BulkIdle
    /\ RankIdle
    /\ StatIdle
    /\ ReviewIdle
    /\ SetIdle
    /\ MvpIdle
    /\ EditIdle

\* MarvelRequiresCheck that forgets the flag of the players before.
MarvelRequiresCheck_LastPlayerOnly(flag, processedPlayer, validatedPlayer) ==
    processedPlayer.reqCheckFlag \/ validatedPlayer = Null

\* MarvelRequiresCheck with the test on validatedPlayer inverted.
MarvelRequiresCheck_InvertedTest(flag, processedPlayer, validatedPlayer) ==
    flag \/ processedPlayer.reqCheckFlag \/ validatedPlayer # Null

\* requiresCheck after one pass of the Marvel Rivals loop body: set by the
\* player's own review flag and by a failed reconciliation, never cleared.
MarvelRequiresCheck(flag, processedPlayer, validatedPlayer) ==
    flag \/ processedPlayer.reqCheckFlag \/ validatedPlayer = Null

HasValueArray(data) ==
    data.containers # <<>> /\ data.containers[1].hasValueArray

ValueArray == input.containers[1].valueArray

\* CoD processPlayers up to the forEach: the shape guard, then
\* codPlayers[0].valueArray without any guard.
CoDEnter ==
    /\ pc = "call" /\ game = CoD
    /\ IF isAnalyzedTeamDataArray(input)
       THEN /\ result' = Returned(<<>>, TRUE)
            /\ pc' = "returned"
       ELSE IF ~HasValueArray(input)
       THEN /\ result' = Threw
            /\ pc' = "threw"
       ELSE /\ result' = result
            /\ pc' = "loop"
    /\ UNCHANGED <<game, declared, input, idx, players, requiresCheck,
                   flagged, dropped, unranked, winners, outcome>>
    /\ UNCHANGED <<bulkVars, rankVars, statVars, reviewVars,
                   setVars, mvpVars, editVars>>

\* One call of the forEach callback. requiresCheck is a const in this
\* processor: neither branch assigns it.
CoDProcessNext ==
    /\ pc = "loop" /\ game = CoD /\ idx <= Len(ValueArray)
    /\ LET processedPlayer == processPlayer(ValueArray[idx], declared)
           validatedPlayer == validateProcessedPlayer(processedPlayer,
                                                      SessionPlayers)
       IN  /\ players' = IF validatedPlayer = Null THEN players
                         ELSE Append(players, validatedPlayer)
           /\ dropped' = IF validatedPlayer = Null THEN dropped \cup {idx}
                         ELSE dropped
           /\ flagged' = (flagged \/ processedPlayer.reqCheckFlag
                                  \/ validatedPlayer = Null)
    /\ idx' = idx + 1
    /\ UNCHANGED <<game, declared, input, pc, requiresCheck, unranked,
                   result, winners, outcome>>
    /\ UNCHANGED <<bulkVars, rankVars, statVars, reviewVars,
                   setVars, mvpVars, editVars>>

CoDRankAndReturn ==
    /\ pc = "loop" /\ game = CoD /\ idx > Len(ValueArray)
    /\ unranked' = players
    /\ players' = rankPlayersByScore(players)
    /\ result' = Returned(players', requiresCheck)
    /\ pc' = "returned"
    /\ UNCHANGED <<game, declared, input, idx, requiresCheck, flagged,
                   dropped, winners, outcome>>
    /\ UNCHANGED <<bulkVars, rankVars, statVars, reviewVars,
                   setVars, mvpVars, editVars>>

\* processMarvelRivalsPlayers up to the loop: the shape guard, then the
\* guard on an absent or empty player container.
\* MarvelEnter whose shape guard returns the flag unset.
MarvelEnter_TeamUnflagged ==
    /\ pc = "call" /\ game = Marvel
    /\ IF isAnalyzedTeamDataArray(input)
       THEN /\ result' = Returned(<<>>, FALSE)
            /\ pc' = "returned"
       ELSE IF ~HasValueArray(input) \/ Len(ValueArray) = 0
       THEN /\ result' = Returned(<<>>, TRUE)
            /\ pc' = "returned"
       ELSE /\ result' = result
            /\ pc' = "loop"
    /\ UNCHANGED <<game, declared, input, idx, players, requiresCheck,
                   flagged, dropped, unranked, winners, outcome>>
    /\ UNCHANGED <<bulkVars, rankVars, statVars, reviewVars,
                   setVars, mvpVars, editVars>>

MarvelEnter ==
    /\ pc = "call" /\ game = Marvel
    /\ IF isAnalyzedTeamDataArray(input)
       THEN /\ result' = Returned(<<>>, TRUE)
            /\ pc' = "returned"
       ELSE IF ~HasValueArray(input) \/ Len(ValueArray) = 0
       THEN /\ result' = Returned(<<>>, TRUE)
            /\ pc' = "returned"
       ELSE /\ result' = result
            /\ pc' = "loop"
    /\ UNCHANGED <<game, declared, input, idx, players, requiresCheck,
                   flagged, dropped, unranked, winners, outcome>>
    /\ UNCHANGED <<bulkVars, rankVars, statVars, reviewVars,
                   setVars, mvpVars, editVars>>

MarvelProcessNext ==
    /\ pc = "loop" /\ game = Marvel /\ idx <= Len(ValueArray)
    /\ LET processedPlayer == processPlayer(ValueArray[idx], declared)
           validatedPlayer == validateProcessedPlayer(processedPlayer,
                                                      SessionPlayers)
       IN  /\ players' = IF validatedPlayer = Null THEN players
                         ELSE Append(players, validatedPlayer)
           /\ requiresCheck' = MarvelRequiresCheck(requiresCheck,
                                                   processedPlayer,
                                                   validatedPlayer)
           /\ dropped' = IF validatedPlayer = Null THEN dropped \cup {idx}
                         ELSE dropped
           /\ flagged' = (flagged \/ processedPlayer.reqCheckFlag
                                  \/ validatedPlayer = Null)
    /\ idx' = idx + 1
    /\ UNCHANGED <<game, declared, input, pc, unranked, result, winners,
                   outcome>>
    /\ UNCHANGED <<bulkVars, rankVars, statVars, reviewVars,
                   setVars, mvpVars, editVars>>

MarvelReturn ==
    /\ pc = "loop" /\ game = Marvel /\ idx > Len(ValueArray)
    /\ result' = Returned(players, requiresCheck)
    /\ pc' = "returned"
    /\ UNCHANGED <<game, declared, input, idx, players, requiresCheck,
                   flagged, dropped, unranked, winners, outcome>>
    /\ UNCHANGED <<bulkVars, rankVars, statVars, reviewVars,
                   setVars, mvpVars, editVars>>

\* The caller hands the processed players to the processor's winner rule ...
CalculateWinners ==
    /\ pc = "returned"
    /\ winners' = IF game = CoD THEN CoDCalculateWinners(result.processedPlayers)
                  ELSE calculateMarvelRivalsWinners(result.processedPlayers)
    /\ pc' = "winners"
    /\ UNCHANGED <<game, declared, input, idx, players, requiresCheck,
                   flagged, dropped, unranked, result, outcome>>
    /\ UNCHANGED <<bulkVars, rankVars, statVars, reviewVars,
                   setVars, mvpVars, editVars>>

\* ... and players, winners and flag to its result coder.
ValidateResults ==
    /\ pc = "winners"
    /\ outcome' = IF game = CoD
                  THEN CoDValidateResults(result.processedPlayers, winners,
                                          result.reqCheckFlag)
                  ELSE validateResults(result.processedPlayers, winners,
                                       result.reqCheckFlag)
    /\ pc' = "done"
    /\ UNCHANGED <<game, declared, input, idx, players, requiresCheck,
                   flagged, dropped, unranked, result, winners>>
    /\ UNCHANGED <<bulkVars, rankVars, statVars, reviewVars,
                   setVars, mvpVars, editVars>>

Next ==
    \/ CoDEnter
    \/ CoDProcessNext
    \/ CoDRankAndReturn
    \/ MarvelEnter
    \/ MarvelProcessNext
    \/ MarvelReturn
    \/ CalculateWinners
    \/ ValidateResults

Spec == Init /\ [][Next]_vars

(***************************************************************************)
(* BulkUploadModal                                                         *)
(***************************************************************************)
\* What a selected File turns out to be once it is read and analysed: the
\* analysis answers Success, CheckRequest or Failed, the file cannot be
\* read, or the analysis call itself raises.
FileKinds == {"ok", "check", "malformed", "unreadable", "crash"}

\* A selection may also hold files that are no image.
SelectKinds == FileKinds \cup {"notimage"}

NoData == [none |-> TRUE]

\* zodFile.safeParse(file).success
IsValidImage(kind) == kind # "notimage"

\* getFileAsBase64(file): null when the file cannot be read.
CanRead(kind) == kind # "unreadable"

\* handleAnalyzeBtnClick(base64Content, sessionPlayers, gameName): the
\* outcome of the pipeline for the screenshot with this id.
AnalysisRaises(kind) == kind = "crash"

handleAnalyzeBtnClick(id, kind) ==
    CASE kind = "ok" ->
            [status |-> Success, data |-> [src |-> id], message |-> SuccessMessage]
      [] kind = "check" ->
            [status |-> CheckRequest, data |-> [src |-> id], message |-> CheckMessage]
      [] OTHER ->
            [status |-> Failed, data |-> NoData, message |-> "Analysis failed"]

\* The files entry a selection creates.
PendingFile(id) ==
    [id |-> id, status |-> "pending", message |-> "Ready to process",
     data |-> NoData]

\* ProcessedResult with the Failed case falling into the CheckRequest one.
ProcessedResult_FailedAsCheck(fileResult, apiResult) ==
    CASE apiResult.status = Success ->
            [fileResult EXCEPT !.status = "success",
                               !.message = "Analysis completed successfully",
                               !.data = apiResult.data]
      [] apiResult.status \in {CheckRequest, Failed} ->
            [fileResult EXCEPT !.status = "check",
                               !.message = apiResult.message,
                               !.data = apiResult.data]
      [] OTHER ->
            [fileResult EXCEPT !.status = "failed",
                               !.message = "Unknown error occurred"]

\* The switch of processFileWithStatusUpdate on apiResult.status.
ProcessedResult(fileResult, apiResult) ==
    CASE apiResult.status = Success ->
            [fileResult EXCEPT !.status = "success",
                               !.message = "Analysis completed successfully",
                               !.data = apiResult.data]
      [] apiResult.status = CheckRequest ->
            [fileResult EXCEPT !.status = "check",
                               !.message = apiResult.message,
                               !.data = apiResult.data]
      [] apiResult.status = Failed ->
            [fileResult EXCEPT !.status = "failed",
                               !.message = apiResult.message]
      [] OTHER ->
            [fileResult EXCEPT !.status = "failed",
                               !.message = "Unknown error occurred"]

\* updateFileStatus that writes to the first entry still processing, not to
\* the entry with the id.
updateFileStatus_ByCompletionOrder(fs, id, updates) ==
    IF \E k \in 1..Len(fs) : fs[k].status = "processing"
    THEN LET first == CHOOSE k \in 1..Len(fs) :
                         /\ fs[k].status = "processing"
                         /\ \A j \in 1..(k - 1) : fs[j].status # "processing"
         IN  [fs EXCEPT ![first] = updates]
    ELSE fs

\* updateFileStatus(id, updates) applied to the files state.
updateFileStatus(fs, id, updates) ==
    [ i \in 1..Len(fs) |-> IF fs[i].id = id THEN updates ELSE fs[i] ]

FileMapHas(id) == \E e \in fileMap : e[1] = id
FileMapGet(id) == (CHOOSE e \in fileMap : e[1] = id)[2]

\* The capture of the files to process taking failed files again.
IsPending_OrFailed(f) == f.status = "pending" \/ f.status = "failed"

IsPending(f) == f.status = "pending"
\* The filter of the results letting failed ones through as well.
IsSuccessful_IncludesFailed(r) ==
    r.status = "success" \/ r.status = "check" \/ r.status = "failed"

IsSuccessful(r) == r.status = "success" \/ r.status = "check"

Unsettled(k) == [state |-> "pending", kind |-> k, value |-> NoData]

BulkInit ==
    /\ BulkIdle
    /\ PipeIdle
    /\ RankIdle
    /\ StatIdle
    /\ ReviewIdle
    /\ SetIdle
    /\ MvpIdle
    /\ EditIdle

\* Dialog onOpenChange(true)
OpenModal ==
    /\ ~open
    /\ open' = TRUE
    /\ UNCHANGED <<files, fileMap, isProcessing, batch, settled, bpc,
                   delivered, nextId>>
    /\ UNCHANGED <<pipeVars, rankVars, statVars, reviewVars,
                   setVars, mvpVars, editVars>>

\* handleFileChange: the file input is disabled while processing.
HandleFileChange ==
    /\ open /\ ~isProcessing
    /\ \E n \in 1..2 : \E sel \in [1..n -> SelectKinds] :
         LET valid == SelectSeq(sel, IsValidImage)
             newFiles == [ i \in 1..Len(valid) |-> PendingFile(nextId + i - 1) ]
         IN  /\ nextId + Len(valid) - 1 <= MaxFiles
             /\ IF Len(valid) = 0
                THEN UNCHANGED <<files, fileMap, nextId>>
                ELSE /\ files' = files \o newFiles
                     /\ fileMap' = fileMap \cup
                            { <<nextId + i - 1, valid[i]>> : i \in 1..Len(valid) }
                     /\ nextId' = nextId + Len(valid)
    /\ UNCHANGED <<isProcessing, open, batch, settled, bpc, delivered>>
    /\ UNCHANGED <<pipeVars, rankVars, statVars, reviewVars,
                   setVars, mvpVars, editVars>>

\* handleRemoveFile: the button is rendered for pending files while idle.
HandleRemoveFile ==
    /\ open /\ ~isProcessing
    /\ \E i \in 1..Len(files) :
         /\ IsPending(files[i])
         /\ files' = SelectSeq(files, LAMBDA f : f.id # files[i].id)
         /\ fileMap' = { e \in fileMap : e[1] # files[i].id }
    /\ UNCHANGED <<isProcessing, open, batch, settled, bpc, delivered, nextId>>
    /\ UNCHANGED <<pipeVars, rankVars, statVars, reviewVars,
                   setVars, mvpVars, editVars>>

\* handleClose through Cancel or onOpenChange(false), both refused while
\* processing.
HandleClose ==
    /\ open /\ ~isProcessing
    /\ files' = <<>>
    /\ fileMap' = {}
    /\ open' = FALSE
    /\ UNCHANGED <<isProcessing, batch, settled, bpc, delivered, nextId>>
    /\ UNCHANGED <<pipeVars, rankVars, statVars, reviewVars,
                   setVars, mvpVars, editVars>>

\* handleProcessAll up to the await: capture the pending files, mark them
\* processing and start one processFileWithStatusUpdate per captured file.
HandleProcessAll ==
    /\ open /\ ~isProcessing
    /\ Len(files) # 0
    /\ Len(SessionPlayers) # 0
    /\ LET pendingFiles == SelectSeq(files, IsPending)
       IN  /\ Len(pendingFiles) # 0
           /\ batch' = pendingFiles
           /\ settled' = [ i \in 1..Len(pendingFiles) |->
                             IF FileMapHas(pendingFiles[i].id)
                             THEN Unsettled(FileMapGet(pendingFiles[i].id))
                             ELSE Unsettled("missing") ]
           /\ files' = [ i \in 1..Len(files) |->
                           IF IsPending(files[i])
                           THEN [files[i] EXCEPT !.status = "processing",
                                                 !.message = "Processing..."]
                           ELSE files[i] ]
    /\ isProcessing' = TRUE
    /\ bpc' = "awaiting"
    /\ UNCHANGED <<fileMap, open, delivered, nextId>>
    /\ UNCHANGED <<pipeVars, rankVars, statVars, reviewVars,
                   setVars, mvpVars, editVars>>

\* The value one processFileWithStatusUpdate call resolves to.
FileResult(fileResult, kind) ==
    IF kind = "missing"
    THEN [fileResult EXCEPT !.status = "failed", !.message = "File not found"]
    ELSE IF ~CanRead(kind)
    THEN [fileResult EXCEPT !.status = "failed",
                            !.message = "Failed to read file"]
    ELSE ProcessedResult(fileResult, handleAnalyzeBtnClick(fileResult.id, kind))

\* One processFileWithStatusUpdate call completes, in any order relative to
\* its siblings: it updates its own files entry and resolves.
FileCompletes ==
    /\ bpc \in {"awaiting", "rejected"}
    /\ \E i \in 1..Len(batch) :
         /\ settled[i].state = "pending"
         /\ ~(CanRead(settled[i].kind) /\ AnalysisRaises(settled[i].kind))
         /\ LET r == FileResult(batch[i], settled[i].kind)
            IN  /\ files' = updateFileStatus(files, batch[i].id, r)
                /\ settled' = [settled EXCEPT ![i].state = "fulfilled",
                                              ![i].value = r]
    /\ UNCHANGED <<fileMap, isProcessing, open, batch, bpc, delivered, nextId>>
    /\ UNCHANGED <<pipeVars, rankVars, statVars, reviewVars,
                   setVars, mvpVars, editVars>>

\* The awaited handleAnalyzeBtnClick raises: nothing catches it, so the
\* call's promise rejects before it reaches updateFileStatus.
FileRejects ==
    /\ bpc \in {"awaiting", "rejected"}
    /\ \E i \in 1..Len(batch) :
         /\ settled[i].state = "pending"
         /\ CanRead(settled[i].kind) /\ AnalysisRaises(settled[i].kind)
         /\ settled' = [settled EXCEPT ![i].state = "rejected"]
    /\ UNCHANGED <<files, fileMap, isProcessing, open, batch, bpc, delivered,
                   nextId>>
    /\ UNCHANGED <<pipeVars, rankVars, statVars, reviewVars,
                   setVars, mvpVars, editVars>>

Results == [ i \in 1..Len(settled) |-> settled[i].value ]

\* Promise.all resolves once every call has: the rest of handleProcessAll.
ProcessAllResolves ==
    /\ bpc = "awaiting"
    /\ \A i \in 1..Len(batch) : settled[i].state = "fulfilled"
    /\ isProcessing' = FALSE
    /\ bpc' = "finished"
    /\ LET successfulResults == SelectSeq(Results, IsSuccessful)
       IN  IF Len(successfulResults) = 0
           THEN UNCHANGED <<files, fileMap, open, delivered>>
           ELSE /\ delivered' = Append(delivered, successfulResults)
                /\ files' = <<>>
                /\ fileMap' = {}
                /\ open' = FALSE
    /\ UNCHANGED <<batch, settled, nextId>>
    /\ UNCHANGED <<pipeVars, rankVars, statVars, reviewVars,
                   setVars, mvpVars, editVars>>

\* Promise.all rejects as soon as one call has: the await raises out of
\* handleProcessAll and none of the statements behind it run.
ProcessAllRejects ==
    /\ bpc = "awaiting"
    /\ \E i \in 1..Len(batch) : settled[i].state = "rejected"
    /\ bpc' = "rejected"
    /\ UNCHANGED <<files, fileMap, isProcessing, open, batch, settled,
                   delivered, nextId>>
    /\ UNCHANGED <<pipeVars, rankVars, statVars, reviewVars,
                   setVars, mvpVars, editVars>>

BulkNext ==
    \/ OpenModal
    \/ HandleFileChange
    \/ HandleRemoveFile
    \/ HandleClose
    \/ HandleProcessAll
    \/ FileCompletes
    \/ FileRejects
    \/ ProcessAllResolves
    \/ ProcessAllRejects

BulkSpec == BulkInit /\ [][BulkNext]_vars

\* The continuations of the started analyses and of the awaited Promise.all
\* are run by the event loop once they can; what the user does is not forced.
BulkFairness ==
    /\ WF_vars(FileCompletes)
    /\ WF_vars(FileRejects)
    /\ WF_vars(ProcessAllResolves)
    /\ WF_vars(ProcessAllRejects)

BulkLiveSpec == BulkInit /\ [][BulkNext]_vars /\ BulkFairness

(***************************************************************************)
(* Properties of one extraction run (checked under Spec)                   *)
(***************************************************************************)
IndividualRun == input.shape = "individual" /\ HasValueArray(input)

\* Does the roster hold exactly one entry this extracted name matches?
MatchesOneRosterEntry(name) ==
    Cardinality({ i \in 1..Len(SessionPlayers) :
                    NameMatches(name, SessionPlayers[i].playerName) }) = 1

\* C1: whenever processPlayers returns for an individual-shaped extraction,
\* every player whose reconciliation failed is missing from processedPlayers
\* and, if there was such a player, the returned reqCheckFlag is true.
C1_FailedReconciliationFlagged ==
    (result.kind = "returned" /\ IndividualRun) =>
        /\ Len(result.processedPlayers) = (idx - 1) - Cardinality(dropped)
        /\ (dropped # {} => result.reqCheckFlag)

MissingStat(raw) ==
    \E k \in 1..Len(declared) : ~RawReading(raw, declared[k]).present

\* C2: when some player of the extraction lacks a declared stat, the outcome
\* is CheckRequest and every resolved player's stat that was missing in the
\* extraction reads "0".
C2_MissingStatChecked ==
    (pc = "done" /\ IndividualRun
       /\ \E i \in 1..Len(ValueArray) : MissingStat(ValueArray[i])) =>
        /\ outcome.status = CheckRequest
        /\ \A i \in 1..Len(ValueArray) :
             (MissingStat(ValueArray[i]) /\ i \notin dropped) =>
                \E q \in 1..Len(outcome.data.players) :
                    \A k \in 1..Len(declared) :
                        ~RawReading(ValueArray[i], declared[k]).present =>
                            StatValueOrZero(outcome.data.players[q],
                                            declared[k]) = <<"0">>

\* C3: a team-shaped extraction ends in a Failed outcome with empty players
\* and winners.
C3_TeamShapeFailed ==
    (pc = "done" /\ input.shape = "team") =>
        /\ outcome.status = Failed
        /\ outcome.data.players = <<>>
        /\ outcome.data.winner = <<>>

\* C4: an individual-shaped extraction that leaves no resolved player ends
\* in Failed with an empty payload; one that leaves a resolved player never
\* ends in Failed.
C4_ZeroResolvedFailed ==
    (pc = "done" /\ input.shape = "individual") =>
        /\ result.processedPlayers = <<>> =>
              /\ outcome.status = Failed
              /\ outcome.data.players = <<>>
              /\ outcome.data.winner = <<>>
        /\ result.processedPlayers # <<>> => outcome.status # Failed

\* C5: processPlayers never raises: whatever the extraction, the call ends
\* by returning a value.
C5_ProcessPlayersNeverThrows == result.kind # "threw"

AllResolvable(raw) ==
    \A k \in 1..Len(declared) : Resolvable(RawReading(raw, declared[k]))

CleanExtraction ==
    /\ input.shape = "individual"
    /\ HasValueArray(input) =>
         \A i \in 1..Len(ValueArray) :
            /\ AllResolvable(ValueArray[i])
            /\ MatchesOneRosterEntry(ValueArray[i].name)

CleanResult ==
    /\ result.kind = "returned"
    /\ result.reqCheckFlag = FALSE
    /\ Len(result.processedPlayers) = Len(ValueArray)
    /\ \A i \in 1..Len(ValueArray) :
         \E q \in 1..Len(result.processedPlayers) :
            NameMatches(ValueArray[i].name, result.processedPlayers[q].name)
    /\ pc = "done" => outcome.status = Success

\* C8 as stated: every individual-shaped extraction whose players all carry
\* numeric stats and roster names is returned whole, unflagged, and coded
\* Success.
C8_CleanExtractionSucceeds ==
    (pc \in {"returned", "winners", "done"} /\ CleanExtraction) =>
        (HasValueArray(input) /\ CleanResult)

\* C8 amended: the same for extractions that hold at least one player.
C8_CleanNonEmptyExtractionSucceeds ==
    (pc \in {"returned", "winners", "done"} /\ CleanExtraction
       /\ HasValueArray(input) /\ Len(ValueArray) >= 1) => CleanResult

C8_Witness ==
    /\ pc = "done" /\ CleanExtraction /\ HasValueArray(input)
    /\ Len(ValueArray) = MaxPlayers
    /\ outcome.status = Success

\* C9: the outcome's status is CheckRequest when the flag handed to
\* validateResults is true and Success when it is false, and its data are the
\* player and winner lists handed in.
C9_ResultCoderMapsFlag ==
    pc = "done" =>
        /\ result.reqCheckFlag => outcome.status = CheckRequest
        /\ ~result.reqCheckFlag => outcome.status = Success
        /\ outcome.data.players = result.processedPlayers
        /\ outcome.data.winner = winners

C9_Witness ==
    /\ pc = "done"
    /\ outcome.status = CheckRequest
    /\ outcome.data.players # <<>>

\* The score the ranking is about: the number in COD_SCORE, 0 without one.
ScoreOf(p) ==
    IF \E s \in 1..Len(p.stats) :
          p.stats[s].stat = "COD_SCORE" /\ IsNumeric(p.stats[s].statValue)
    THEN LET s == CHOOSE s \in 1..Len(p.stats) :
                     /\ p.stats[s].stat = "COD_SCORE"
                     /\ \A t \in 1..(s - 1) : p.stats[t].stat # "COD_SCORE"
         IN  DigitsValue(p.stats[s].statValue, 0)
    ELSE 0

\* A player without its position stats.
Core(p) ==
    [ playerId |-> p.playerId, name |-> p.name,
      stats |-> SelectSeq(p.stats, LAMBDA st : st.stat # "COD_POS") ]

CoreSeq(ps) == [ i \in 1..Len(ps) |-> Core(ps[i]) ]

\* q is p with position n written into COD_POS: into the existing stat, at
\* its place, or into a new last stat.
PositionWritten(p, q, n) ==
    /\ Core(q) = Core(p)
    /\ IF \E s \in 1..Len(p.stats) : p.stats[s].stat = "COD_POS"
       THEN /\ Len(q.stats) = Len(p.stats)
            /\ \A s \in 1..Len(p.stats) : q.stats[s].stat = p.stats[s].stat
       ELSE /\ Len(q.stats) = Len(p.stats) + 1
            /\ q.stats[Len(q.stats)].stat = "COD_POS"
    /\ \E s \in 1..Len(q.stats) :
         /\ q.stats[s].stat = "COD_POS"
         /\ ParseInt(q.stats[s].statValue) = Num(n)

\* The CoD ranking pass has just run and processPlayers has returned.
Ranked == game = CoD /\ pc = "returned" /\ IndividualRun

BatchSettled ==
    /\ bpc \in {"finished", "rejected"}
    /\ \A i \in 1..Len(batch) : settled[i].state # "pending"

\* C6: once every analysis of a batch has settled, each file that was
\* analysed to success or check carries its own id and data, and its result
\* is among those handed to onBulkProcessingComplete, whatever happened to
\* its siblings.
C6_FailureIsolation ==
    BatchSettled =>
        \A i \in 1..Len(batch) :
            (settled[i].state = "fulfilled" /\ IsSuccessful(settled[i].value)) =>
                /\ settled[i].value.id = batch[i].id
                /\ settled[i].value.data = [src |-> batch[i].id]
                /\ delivered # <<>>
                /\ \E k \in 1..Len(delivered[Len(delivered)]) :
                      delivered[Len(delivered)][k] = settled[i].value

Malformed(i) == settled[i].kind = "malformed"

\* C7: when handleProcessAll has its results, there is one per captured file,
\* in the captured order and under that file's id; a malformed file's result
\* is failed and, in a batch whose other files are readable and analysable,
\* the failed results are exactly those of the malformed files and all others
\* are success or check.
C7_BatchResults ==
    bpc = "finished" =>
        /\ Len(Results) = Len(batch)
        /\ \A i \in 1..Len(batch) :
              /\ Results[i].id = batch[i].id
              /\ Malformed(i) => Results[i].status = "failed"
        /\ (\A i \in 1..Len(batch) : settled[i].kind \in {"ok", "check", "malformed"}) =>
              /\ Cardinality({ i \in 1..Len(batch) : Results[i].status = "failed" })
                   = Cardinality({ i \in 1..Len(batch) : Malformed(i) })
              /\ Cardinality({ i \in 1..Len(batch) : IsSuccessful(Results[i]) })
                   = Len(batch) - Cardinality({ i \in 1..Len(batch) : Malformed(i) })

C7_Witness ==
    /\ bpc = "finished"
    /\ Len(batch) = 3
    /\ Cardinality({ i \in 1..Len(batch) : Malformed(i) }) = 1
    /\ \A i \in 1..Len(batch) : settled[i].kind \in {"ok", "check", "malformed"}
    /\ delivered # <<>>

(***************************************************************************)
(* RankSpec: the CoD ranking pass and winner rule on resolved player lists *)
(***************************************************************************)
StatOf(key, v) ==
    [statId |-> getStatConfigByFieldKey(key), stat |-> key, statValue |-> v]

\* Stat lists of resolved CoD players: no COD_SCORE at all, three scores,
\* and a score next to a COD_POS read from the screenshot.
RankStatLists ==
    { << StatOf("COD_KILLS", <<"1", "0">>) >>,
      << StatOf("COD_SCORE", <<"1", "0">>) >>,
      << StatOf("COD_SCORE", <<"7">>) >>,
      << StatOf("COD_SCORE", <<"3">>) >>,
      << StatOf("COD_SCORE", <<"1", "0">>), StatOf("COD_POS", <<"7">>) >> }

\* Players as the reconciler returns them; the second roster player is drawn
\* with two of the scores.
RankPlayers ==
    { [ playerId |-> SessionPlayers[1].playerId,
        name |-> SessionPlayers[1].playerName,
        stats |-> st ] : st \in RankStatLists }
    \cup
    { [ playerId |-> SessionPlayers[2].playerId,
        name |-> SessionPlayers[2].playerName,
        stats |-> << StatOf("COD_SCORE", v) >> ] : v \in { <<"1", "0">>, <<"7">> } }

RankInit ==
    /\ rkList \in UNION { [1..n -> RankPlayers] : n \in 0..MaxRankPlayers }
    /\ rkPrev = <<>>
    /\ rkPasses = 0
    /\ rkWinners = <<>>
    /\ rkWon = FALSE
    /\ PipeIdle
    /\ BulkIdle
    /\ StatIdle
    /\ ReviewIdle
    /\ SetIdle
    /\ MvpIdle
    /\ EditIdle

\* The caller hands over the same players in another order.
Reorder ==
    /\ rkPasses = 0
    /\ \E i \in 1..(Len(rkList) - 1) :
         rkList' = [rkList EXCEPT ![i] = rkList[i + 1], ![i + 1] = rkList[i]]
    /\ UNCHANGED <<rkPrev, rkPasses, rkWinners, rkWon>>
    /\ UNCHANGED <<pipeVars, bulkVars, statVars, reviewVars,
                   setVars, mvpVars, editVars>>

\* codVisionResult.players = rankPlayersByScore(codVisionResult.players)
RankPass ==
    /\ rkPasses < MaxPasses
    /\ rkPrev' = rkList
    /\ rkList' = rankPlayersByScore(rkList)
    /\ rkPasses' = rkPasses + 1
    /\ rkWon' = FALSE
    /\ rkWinners' = <<>>
    /\ UNCHANGED <<pipeVars, bulkVars, statVars, reviewVars,
                   setVars, mvpVars, editVars>>

\* CoDGunGameProcessor.calculateWinners(players)
WinnersCall ==
    /\ ~rkWon
    /\ rkWinners' = CoDCalculateWinners(rkList)
    /\ rkWon' = TRUE
    /\ UNCHANGED <<rkList, rkPrev, rkPasses>>
    /\ UNCHANGED <<pipeVars, bulkVars, statVars, reviewVars,
                   setVars, mvpVars, editVars>>

RankNext ==
    \/ Reorder
    \/ RankPass
    \/ WinnersCall

RankSpec == RankInit /\ [][RankNext]_vars

\* C11: a ranking pass over a list that a ranking pass produced returns that
\* list: same players in the same order with the same COD_POS values.
C11_RankingIdempotent ==
    rkPasses >= 2 =>
        /\ Len(rkList) = Len(rkPrev)
        /\ \A i \in 1..Len(rkList) :
              /\ rkList[i].playerId = rkPrev[i].playerId
              /\ rkList[i].name = rkPrev[i].name
              /\ rkList[i].stats = rkPrev[i].stats

C11_Witness ==
    /\ rkPasses = 2
    /\ Len(rkList) = MaxRankPlayers
    /\ ScoreOf(rkList[1]) > ScoreOf(rkList[2])
    /\ ScoreOf(rkList[2]) = ScoreOf(rkList[3])
    /\ \E s \in 1..Len(rkList[1].stats) :
          /\ rkList[1].stats[s].stat = "COD_POS"
          /\ rkList[1].stats[s].statValue = <<"1">>

\* C12: calculateWinners for (INDIVIDUAL, COD_SCORE, highest) returns exactly
\* the players whose COD_SCORE is the maximum of the list, every tied player
\* once, and the same players for the list in any other order.
C12_WinnersAreMaxScorers ==
    rkWon =>
        LET top == { i \in 1..Len(rkList) :
                        \A j \in 1..Len(rkList) :
                            ScoreOf(rkList[j]) <= ScoreOf(rkList[i]) }
        IN  /\ Len(rkWinners) = Cardinality(top)
            /\ \A i \in top :
                  Cardinality({ k \in 1..Len(rkWinners) : rkWinners[k] = rkList[i] })
                    = Cardinality({ j \in top : rkList[j] = rkList[i] })

\* Scores [10, 7, 10, 3]: the winners are the two players scoring 10.
C12_Witness ==
    /\ rkWon
    /\ Len(rkList) = 4
    /\ ScoreOf(rkList[1]) = 10
    /\ ScoreOf(rkList[2]) = 7
    /\ ScoreOf(rkList[3]) = 10
    /\ ScoreOf(rkList[4]) = 3
    /\ rkList[1].playerId # rkList[3].playerId
    /\ Len(rkWinners) = 2
    /\ { rkWinners[k].playerId : k \in 1..2 } = { rkList[1].playerId, rkList[3].playerId }

\* C13: within one processPlayers run the batch flag, once true, stays true
\* while the remaining players are processed, and the reqCheckFlag the run
\* returns is then true.
C13_ReviewFlagSticky ==
    [][requiresCheck =>
          /\ requiresCheck'
          /\ pc' \in {"returned", "winners", "done"} => result'.reqCheckFlag]_vars

\* The first player raised the flag, the last player is clean.
C13_Witness ==
    /\ game = Marvel /\ pc = "returned" /\ IndividualRun
    /\ Len(ValueArray) = MaxPlayers
    /\ ~AllResolvable(ValueArray[1])
    /\ AllResolvable(ValueArray[MaxPlayers])
    /\ MatchesOneRosterEntry(ValueArray[MaxPlayers].name)
    /\ requiresCheck
    /\ result.reqCheckFlag

\* C14: the Marvel Rivals winner rule returns no winner for every player
\* list, and the outcome is then Success or CheckRequest by the flag alone.
C14_NoWinnerRuleIsNotAnError ==
    game = Marvel =>
        /\ pc \in {"winners", "done"} => winners = <<>>
        /\ pc = "done" =>
              /\ outcome.status \in {Success, CheckRequest}
              /\ outcome.status = CheckRequest <=> result.reqCheckFlag
              /\ outcome.data.winner = <<>>

C14_Witness ==
    /\ game = Marvel /\ pc = "done"
    /\ Len(result.processedPlayers) = MaxPlayers
    /\ winners = <<>>
    /\ outcome.status = Success

\* C15: a team-shaped extraction makes processPlayers of either processor
\* return, as its first step, no players and reqCheckFlag true; no player of
\* it is normalized or reconciled.
C15_TeamShapeReturnsAtOnce ==
    (input.shape = "team" /\ pc \notin {"off", "call"}) =>
        /\ result = Returned(<<>>, TRUE)
        /\ pc # "loop"
        /\ idx = 1
        /\ players = <<>>
        /\ dropped = {}
        /\ ~flagged

C15_Witness ==
    /\ input.shape = "team"
    /\ HasValueArray(input)
    /\ pc = "returned"
    /\ result = Returned(<<>>, TRUE)

(***************************************************************************)
(* StatSpec: the per-stat validators of the two processors                 *)
(***************************************************************************)
\* statValue: string | undefined. The strings: empty, zero, numbers, text,
\* a number behind a blank, a number followed by text.
StatValueArgs ==
    { Absent, Read(<<>>), Read(<<"0">>), Read(<<"3", "0">>), Read(<<"4", "5">>),
      Read(<<"x">>), Read(<<" ", "7">>), Read(<<"1", "2", "k">>) }

NumPlayersArgs == { NoCount } \cup { Count(n) : n \in 0..MaxPlayers }

StatInit ==
    /\ vsGame \in {CoD, Marvel}
    /\ vsValue \in StatValueArgs
    /\ vsNumPlayers \in NumPlayersArgs
    /\ vsResult = NoResult
    /\ PipeIdle
    /\ BulkIdle
    /\ RankIdle
    /\ ReviewIdle
    /\ SetIdle
    /\ MvpIdle
    /\ EditIdle

\* CoDGunGameProcessor.validateStats(statValue, numPlayers)
CoDValidateStatsCall ==
    /\ vsGame = CoD /\ vsResult = NoResult
    /\ vsResult' = CoDValidateStats(vsValue, vsNumPlayers)
    /\ UNCHANGED <<vsGame, vsValue, vsNumPlayers>>
    /\ UNCHANGED <<pipeVars, bulkVars, rankVars, reviewVars,
                   setVars, mvpVars, editVars>>

\* MarvelRivalsProcessor.validateStats(statValue, numPlayers)
MarvelValidateStatsCall ==
    /\ vsGame = Marvel /\ vsResult = NoResult
    /\ vsResult' = validateMarvelRivalsStatValue(vsValue, vsNumPlayers)
    /\ UNCHANGED <<vsGame, vsValue, vsNumPlayers>>
    /\ UNCHANGED <<pipeVars, bulkVars, rankVars, reviewVars,
                   setVars, mvpVars, editVars>>

StatNext ==
    \/ CoDValidateStatsCall
    \/ MarvelValidateStatsCall

StatSpec == StatInit /\ [][StatNext]_vars

\* C16: validateStats of either processor answers an absent reading with
\* statValue "0" and reqCheck true, and a present reading with that reading
\* and reqCheck false, whatever numPlayers is.
C16_ValidateStatsDefaultsMissing ==
    vsResult # NoResult =>
        /\ ~vsValue.present =>
              vsResult = [statValue |-> <<"0">>, reqCheck |-> TRUE]
        /\ vsValue.present =>
              vsResult = [statValue |-> vsValue.value, reqCheck |-> FALSE]

\* A present reading that is not a number came back as it was.
C16_Witness ==
    /\ vsGame = CoD
    /\ vsValue = Read(<<"x">>)
    /\ vsNumPlayers = Count(MaxPlayers)
    /\ vsResult = [statValue |-> <<"x">>, reqCheck |-> FALSE]

\* Number of stats of the player filed under the key.
KeyCount(p, key) ==
    Cardinality({ s \in 1..Len(p.stats) : p.stats[s].stat = key })

\* C17: the players handed to the ranking pass have no stat key twice; after
\* one pass or several each player still has no stat key twice and has
\* exactly one COD_POS stat.
C17_StatKeysStayUnique ==
    rkPasses >= 1 =>
        \A i \in 1..Len(rkList) :
            /\ KeyCount(rkList[i], "COD_POS") = 1
            /\ \A s \in 1..Len(rkList[i].stats) :
                  KeyCount(rkList[i], rkList[i].stats[s].stat) = 1

\* Two passes over a full list; the player with the COD_KILLS stat came
\* without a COD_POS stat.
C17_Witness ==
    /\ rkPasses = MaxPasses
    /\ Len(rkList) = MaxRankPlayers
    /\ \E i \in 1..Len(rkList) :
          /\ rkList[i].stats[1].stat = "COD_KILLS"
          /\ Len(rkList[i].stats) = 2
          /\ KeyCount(rkList[i], "COD_POS") = 1

(***************************************************************************)
(* Properties of the bulk upload keyed by file id (checked under BulkSpec) *)
(***************************************************************************)
\* What a file of the given kind shows once its analysis has completed.
ShownFor(id, kind) ==
    CASE kind = "ok" ->
            [status |-> "success", message |-> "Analysis completed successfully",
             data |-> [src |-> id]]
      [] kind = "check" ->
            [status |-> "check", message |-> CheckMessage, data |-> [src |-> id]]
      [] kind = "malformed" ->
            [status |-> "failed", message |-> "Analysis failed", data |-> NoData]
      [] kind = "unreadable" ->
            [status |-> "failed", message |-> "Failed to read file", data |-> NoData]
      [] OTHER ->
            [status |-> "failed", message |-> "File not found", data |-> NoData]

Shown(f) == [status |-> f.status, message |-> f.message, data |-> f.data]

\* The i-th analysis of the batch completes in this step.
Completes(i) ==
    /\ i \in DOMAIN settled /\ i \in DOMAIN settled'
    /\ settled[i].state = "pending"
    /\ settled'[i].state = "fulfilled"

\* C18: a completing analysis changes the files entry with its own id and no
\* other, and a completed file shows the status, message and data that its
\* own analysis gives, in whatever order the analyses complete.
C18_ResultsKeyedById ==
    /\ [][\A i \in 1..Len(batch) :
            Completes(i) =>
               /\ Len(files') = Len(files)
               /\ \A k \in 1..Len(files) :
                     IF files[k].id = batch[i].id
                     THEN /\ files'[k].id = batch[i].id
                          /\ Shown(files'[k]) = ShownFor(batch[i].id, settled[i].kind)
                     ELSE files'[k] = files[k]]_vars
    /\ [](\A i \in 1..Len(batch) : \A k \in 1..Len(files) :
            (settled[i].state = "fulfilled" /\ files[k].id = batch[i].id) =>
                Shown(files[k]) = ShownFor(batch[i].id, settled[i].kind))

\* The last file of a batch of three completed first.
C18_Witness ==
    /\ bpc = "awaiting"
    /\ Len(batch) = 3 /\ Len(files) = 3
    /\ settled[1].state = "pending"
    /\ settled[2].state = "pending"
    /\ settled[3].state = "fulfilled"
    /\ files[1].status = "processing"
    /\ files[2].status = "processing"
    /\ files[3].id = batch[3].id
    /\ files[3].status = "check"

Deliverable(r) == r.status = "success" \/ r.status = "check"

\* C19: every call of onBulkProcessingComplete is made when the batch has its
\* results, and is handed those of status success or check, each once and no
\* other; when the batch has no such result the call is not made.
C19_OnlyProcessedResultsDelivered ==
    [][/\ delivered' # delivered =>
            /\ bpc = "awaiting" /\ bpc' = "finished"
            /\ Len(delivered') = Len(delivered) + 1
            /\ SubSeq(delivered', 1, Len(delivered)) = delivered
            /\ LET arg == delivered'[Len(delivered')]
               IN  /\ \A k \in 1..Len(arg) :
                         /\ Deliverable(arg[k])
                         /\ \E i \in 1..Len(batch) : settled[i].value = arg[k]
                   /\ \A i \in 1..Len(batch) :
                         Deliverable(settled[i].value) =>
                            Cardinality({ k \in 1..Len(arg) :
                                            arg[k] = settled[i].value }) = 1
       /\ (bpc = "awaiting" /\ bpc' = "finished"
             /\ \A i \in 1..Len(batch) : ~Deliverable(settled[i].value)) =>
                delivered' = delivered]_vars

\* A batch with a success, a check and a failed result: two were handed on.
C19_Witness ==
    /\ bpc = "finished"
    /\ Len(batch) = 3
    /\ { settled[i].value.status : i \in 1..3 } = {"success", "check", "failed"}
    /\ Len(delivered) = 1
    /\ Len(delivered[1]) = 2
    /\ \A k \in 1..2 : delivered[1][k].status # "failed"

(***************************************************************************)
(* ReviewSpec: the bulk review modal, mounted with results to assign       *)
(***************************************************************************)
\* setId: number | null
NoSet == [assigned |-> FALSE, id |-> 0]
SetRef(n) == [assigned |-> TRUE, id |-> n]

\* The results onBulkProcessingComplete handed over, ids as the bulk upload
\* gave them.
ReviewResult(i) ==
    [ id |-> i,
      status |-> IF i % 2 = 1 THEN "success" ELSE "check",
      data |-> [src |-> i] ]

ReviewResults ==
    { [ i \in 1..n |-> ReviewResult(i) ] : n \in 0..MaxResults }

\* The form's sets by setId and next to them the parent's highestSetId, which
\* starts as the number of sets and grows with every set added.
ExistingSets ==
    { [sets |-> ids, highestSetId |-> h] :
        ids \in { <<>>, <<1>>, <<2>>, <<1, 2>> }, h \in 0..2 }

initialSetOptions(existingSets) ==
    [ index \in 1..Len(existingSets) |->
        [id |-> existingSets[index], label |-> index, isNew |-> FALSE] ]

ReviewInit ==
    /\ rvResults \in ReviewResults
    /\ \E e \in ExistingSets :
         /\ e.highestSetId >= Len(e.sets)
         /\ rvExisting = e.sets
         /\ rvSetOptions = initialSetOptions(e.sets)
         /\ rvNextNewSetId = e.highestSetId + 1
    /\ rvOpen = TRUE
    /\ rvAssignments = [ i \in 1..Len(rvResults) |->
                           [resultId |-> rvResults[i].id, setId |-> NoSet] ]
    /\ rvPicked = [ i \in 1..Len(rvResults) |-> NoSet ]
    /\ rvConfirmed = <<>>
    /\ PipeIdle
    /\ BulkIdle
    /\ RankIdle
    /\ StatIdle
    /\ SetIdle
    /\ MvpIdle
    /\ EditIdle

\* The wrapper renders the content only for an open modal with results.
Mounted == rvOpen /\ Len(rvResults) > 0

NewSetIds(options) ==
    LET new == SelectSeq(options, LAMBDA o : o.isNew)
    IN  [ i \in 1..Len(new) |-> new[i].id ]

\* handleAddSet
ReviewAddSet ==
    /\ Mounted
    /\ Len(NewSetIds(rvSetOptions)) < MaxNewSets
    /\ rvSetOptions' = Append(rvSetOptions,
                              [ id |-> rvNextNewSetId,
                                label |-> Len(rvSetOptions) + 1,
                                isNew |-> TRUE ])
    /\ rvNextNewSetId' = rvNextNewSetId + 1
    /\ UNCHANGED <<rvResults, rvExisting, rvOpen, rvAssignments, rvPicked,
                   rvConfirmed>>
    /\ UNCHANGED <<pipeVars, bulkVars, rankVars, statVars,
                   setVars, mvpVars, editVars>>

\* handleAssignmentChange with every assignment set, whatever its result.
handleAssignmentChange_EveryResult(assignments, resultId, setId) ==
    [ i \in 1..Len(assignments) |-> [assignments[i] EXCEPT !.setId = setId] ]

handleAssignmentChange(assignments, resultId, setId) ==
    [ i \in 1..Len(assignments) |->
        IF assignments[i].resultId = resultId
        THEN [assignments[i] EXCEPT !.setId = setId]
        ELSE assignments[i] ]

\* onValueChange of a result's Select: value ? parseInt(value) : null
SelectedSetId(value) ==
    IF value = <<>> THEN NoSet ELSE SetRef(ParseInt(value).val)

\* The user picks one of the offered sets for one result, or clears it.
ReviewAssign ==
    /\ Mounted
    /\ \E r \in 1..Len(rvResults) :
         \/ \E o \in 1..Len(rvSetOptions) :
               /\ rvAssignments' =
                     handleAssignmentChange(rvAssignments, rvResults[r].id,
                         SelectedSetId(NumberToString(rvSetOptions[o].id)))
               /\ rvPicked' = [rvPicked EXCEPT ![r] = SetRef(rvSetOptions[o].id)]
         \/ /\ rvAssignments' =
                  handleAssignmentChange(rvAssignments, rvResults[r].id,
                                         SelectedSetId(<<>>))
            /\ rvPicked' = [rvPicked EXCEPT ![r] = NoSet]
    /\ UNCHANGED <<rvResults, rvExisting, rvOpen, rvSetOptions, rvNextNewSetId,
                   rvConfirmed>>
    /\ UNCHANGED <<pipeVars, bulkVars, rankVars, statVars,
                   setVars, mvpVars, editVars>>

unassignedCount(assignments) ==
    Cardinality({ i \in 1..Len(assignments) : ~assignments[i].setId.assigned })

canConfirm == unassignedCount(rvAssignments) = 0 /\ Len(rvResults) > 0

\* The body of the forEach in handleConfirm after its two guards: push the
\* result into the group of the set id, opening the group when it is new.
\* The Map keeps its keys in insertion order.
AddToGroup(grouped, setId, res) ==
    IF \E g \in 1..Len(grouped) : grouped[g].setId = setId
    THEN LET g == CHOOSE g \in 1..Len(grouped) : grouped[g].setId = setId
         IN  [grouped EXCEPT ![g].results = Append(@, res)]
    ELSE Append(grouped, [setId |-> setId, results |-> <<res>>])

\* groupedAssignments after the first k assignments.
RECURSIVE GroupAssignments(_, _, _)
GroupAssignments(assignments, results, k) ==
    IF k = 0 THEN <<>>
    ELSE LET grouped == GroupAssignments(assignments, results, k - 1)
             assignment == assignments[k]
             found == { r \in 1..Len(results) :
                          results[r].id = assignment.resultId }
         IN  IF ~assignment.setId.assigned THEN grouped
             ELSE IF found = {} THEN grouped
             ELSE AddToGroup(grouped, assignment.setId.id,
                             results[CHOOSE r \in found :
                                        \A q \in found : r <= q])

\* handleConfirm, reachable through the Confirm button while it is enabled;
\* the onConfirm it calls ends with the parent closing the modal and
\* dropping the results.
ReviewConfirm ==
    /\ Mounted
    /\ canConfirm
    /\ IF unassignedCount(rvAssignments) > 0
       THEN UNCHANGED <<rvResults, rvOpen, rvConfirmed>>
       ELSE /\ rvConfirmed' =
                  Append(rvConfirmed,
                         [ assignments |->
                               GroupAssignments(rvAssignments, rvResults,
                                                Len(rvAssignments)),
                           newSetIds |-> NewSetIds(rvSetOptions) ])
            /\ rvOpen' = FALSE
            /\ rvResults' = <<>>
    /\ UNCHANGED <<rvExisting, rvSetOptions, rvNextNewSetId, rvAssignments,
                   rvPicked>>
    /\ UNCHANGED <<pipeVars, bulkVars, rankVars, statVars,
                   setVars, mvpVars, editVars>>

\* onClose through Cancel or onOpenChange(false)
ReviewClose ==
    /\ rvOpen
    /\ rvOpen' = FALSE
    /\ rvResults' = <<>>
    /\ UNCHANGED <<rvExisting, rvSetOptions, rvNextNewSetId, rvAssignments,
                   rvPicked, rvConfirmed>>
    /\ UNCHANGED <<pipeVars, bulkVars, rankVars, statVars,
                   setVars, mvpVars, editVars>>

ReviewNext ==
    \/ ReviewAddSet
    \/ ReviewAssign
    \/ ReviewConfirm
    \/ ReviewClose

ReviewSpec == ReviewInit /\ [][ReviewNext]_vars

\* Places of a result among the groups handed to onConfirm.
PlacesOf(groups, res) ==
    { <<g, m>> \in (1..Len(groups)) \X (1..MaxResults + 1) :
        /\ m <= Len(groups[g].results)
        /\ groups[g].results[m] = res }

\* C20: onConfirm is called only with at least one result and every result
\* assigned to a set; the groups it is handed hold every result exactly once,
\* in the group of the set last picked for it, and nothing else.
C20_ConfirmPartitionsResults ==
    [][rvConfirmed' # rvConfirmed =>
          /\ Len(rvResults) > 0
          /\ \A r \in 1..Len(rvResults) : rvPicked[r].assigned
          /\ LET groups == rvConfirmed'[Len(rvConfirmed')].assignments
             IN  /\ \A r \in 1..Len(rvResults) :
                       /\ Cardinality(PlacesOf(groups, rvResults[r])) = 1
                       /\ \A pl \in PlacesOf(groups, rvResults[r]) :
                             groups[pl[1]].setId = rvPicked[r].id
                 /\ \A g \in 1..Len(groups) :
                       /\ groups[g].results # <<>>
                       /\ \A m \in 1..Len(groups[g].results) :
                             \E r \in 1..Len(rvResults) :
                                groups[g].results[m] = rvResults[r]
                       /\ \A h \in 1..Len(groups) :
                             groups[h].setId = groups[g].setId => h = g]_vars

\* Confirmed with two results in two groups, one of them a set added in the
\* modal.
C20_Witness ==
    /\ rvConfirmed # <<>>
    /\ ~rvOpen
    /\ Len(rvConfirmed[1].assignments) = 2
    /\ Len(rvConfirmed[1].newSetIds) >= 1
    /\ \E g \in 1..2 :
          /\ rvConfirmed[1].assignments[g].setId = rvConfirmed[1].newSetIds[1]
          /\ Len(rvConfirmed[1].assignments[g].results) = 1

(***************************************************************************)
(* Ranking against the winner rule (checked under RankSpec)                *)
(***************************************************************************)
\* The players of the list whose COD_POS reads 1.
FirstPlaced(ps) ==
    { i \in 1..Len(ps) :
        \E s \in 1..Len(ps[i].stats) :
            /\ ps[i].stats[s].stat = "COD_POS"
            /\ ps[i].stats[s].statValue = <<"1">> }

AllSettled ==
    /\ isProcessing
    /\ \A i \in 1..Len(batch) : settled[i].state # "pending"

\* C24: once every analysis of a batch has settled, fulfilled or rejected,
\* isProcessing becomes false again (checked under BulkLiveSpec).
C24_BatchTerminates == AllSettled ~> ~isProcessing

Forward(before, after) ==
    \/ after = before
    \/ before = "pending" /\ after = "processing"
    \/ before = "processing" /\ after \in {"success", "check", "failed"}

\* handleProcessAll starts a batch in this step.
BatchStarts == bpc # "awaiting" /\ bpc' = "awaiting"

\* C27: a file that stays in the list only moves pending -> processing ->
\* success, check or failed, and a batch is started with pending files only,
\* so no file is analysed twice.
C27_StatusMovesForward ==
    [][/\ \A k \in 1..Len(files) : \A j \in 1..Len(files') :
             files'[j].id = files[k].id =>
                Forward(files[k].status, files'[j].status)
       /\ BatchStarts =>
             \A i \in 1..Len(batch') :
                \E k \in 1..Len(files) :
                   /\ files[k].id = batch'[i].id
                   /\ files[k].status = "pending"]_vars

\* A second batch runs next to a file that failed in the first.
C27_Witness ==
    /\ bpc = "awaiting"
    /\ Len(files) = 2
    /\ files[1].status = "failed"
    /\ files[2].status = "processing"
    /\ Len(batch) = 1
    /\ batch[1].id = files[2].id

(***************************************************************************)
(* MvpSpec: concurrent analyzeMvp calls for one session                    *)
(***************************************************************************)
\* The player names the language model may answer with: a full name, the
\* beginning of a name, a name no player row has.
MvpNames == { <<"A", "n", "n">>, <<"B">>, <<"Z", "e", "d">> }

StartsWith(str, prefix) ==
    /\ Len(prefix) <= Len(str)
    /\ SubSeq(str, 1, Len(prefix)) = prefix

\* prisma.player.findFirst({ where: { playerName: { startsWith } } })
FindPlayer(name) ==
    LET hits == { i \in 1..Len(SessionPlayers) :
                    StartsWith(SessionPlayers[i].playerName, name) }
    IN  IF hits = {} THEN NullV
        ELSE Val(SessionPlayers[CHOOSE i \in hits : \A j \in hits : i <= j])

PlayerNameOf(playerId) ==
    LET i == CHOOSE i \in 1..Len(SessionPlayers) :
                 SessionPlayers[i].playerId = playerId
    IN  SessionPlayers[i].playerName

\* A call that has not started; what a call returns from the session row.
MvpCallIdle == [pc |-> "idle", object |-> NullV, player |-> NullV, ret |-> NullV]

\* existingSession.mvpDescription ?? ""
StoredMvp(session) ==
    [ description |-> IF session.mvpDescription.isNull THEN 0
                      ELSE session.mvpDescription.val,
      stats |-> session.mvpStats,
      player |-> PlayerNameOf(session.mvpId.val) ]

MvpInit ==
    /\ mvSession = [mvpId |-> NullV, mvpDescription |-> NullV, mvpStats |-> NullV]
    /\ mvCalls = [ c \in 1..MaxCalls |-> MvpCallIdle ]
    /\ mvWrites = <<>>
    /\ PipeIdle
    /\ BulkIdle
    /\ RankIdle
    /\ StatIdle
    /\ ReviewIdle
    /\ SetIdle
    /\ EditIdle

\* analyzeMvp up to generateObject: auth(), then the fast path.
MvpStart ==
    \E c \in 1..MaxCalls : \E authorized \in BOOLEAN :
        /\ mvCalls[c].pc = "idle"
        /\ mvCalls' =
             [mvCalls EXCEPT ![c] =
                IF ~authorized THEN [@ EXCEPT !.pc = "threw"]
                ELSE IF ~mvSession.mvpId.isNull
                THEN [@ EXCEPT !.pc = "returned",
                               !.ret = Val(StoredMvp(mvSession))]
                ELSE [@ EXCEPT !.pc = "generate"]]
        /\ UNCHANGED <<mvSession, mvWrites>>
        /\ UNCHANGED <<pipeVars, bulkVars, rankVars, statVars, reviewVars,
                       setVars, editVars>>

\* generateObject answers, then the player row is looked up by name.
MvpGenerate ==
    \E c \in 1..MaxCalls : \E name \in MvpNames :
        /\ mvCalls[c].pc = "generate"
        /\ mvCalls' =
             [mvCalls EXCEPT ![c] =
                [@ EXCEPT !.pc = "update",
                          !.object = Val([player |-> name, description |-> c,
                                          stats |-> c]),
                          !.player = FindPlayer(name)]]
        /\ UNCHANGED <<mvSession, mvWrites>>
        /\ UNCHANGED <<pipeVars, bulkVars, rankVars, statVars, reviewVars,
                       setVars, editVars>>

\* session.updateMany({ where: { sessionId, mvpId: null }, data }): a data
\* field that is undefined (player?.playerId without a player) is left as
\* it is.
UpdateManyMvp(session, object, player) ==
    IF session.mvpId.isNull
    THEN [ count |-> 1,
           session |-> [ mvpDescription |-> Val(object.description),
                         mvpStats |-> Val(object.stats),
                         mvpId |-> IF player.isNull THEN session.mvpId
                                   ELSE Val(player.val.playerId) ] ]
    ELSE [count |-> 0, session |-> session]

\* The conditional update and the return of the call that changed the row.
MvpUpdate ==
    \E c \in 1..MaxCalls :
        /\ mvCalls[c].pc = "update"
        /\ LET updateResult == UpdateManyMvp(mvSession, mvCalls[c].object.val,
                                             mvCalls[c].player)
           IN  /\ mvSession' = updateResult.session
               /\ IF updateResult.count > 0
                  THEN /\ mvCalls' = [mvCalls EXCEPT ![c] =
                                        [@ EXCEPT !.pc = "returned",
                                                  !.ret = mvCalls[c].object]]
                       /\ mvWrites' = Append(mvWrites, c)
                  ELSE /\ mvCalls' = [mvCalls EXCEPT ![c].pc = "lost"]
                       /\ mvWrites' = mvWrites
        /\ UNCHANGED <<pipeVars, bulkVars, rankVars, statVars, reviewVars,
                       setVars, editVars>>

\* count was 0: read what the other call wrote.
MvpRaceLost ==
    \E c \in 1..MaxCalls :
        /\ mvCalls[c].pc = "lost"
        /\ mvCalls' =
             [mvCalls EXCEPT ![c] =
                IF mvSession.mvpId.isNull THEN [@ EXCEPT !.pc = "threw"]
                ELSE [@ EXCEPT !.pc = "returned",
                               !.ret = Val(StoredMvp(mvSession))]]
        /\ UNCHANGED <<mvSession, mvWrites>>
        /\ UNCHANGED <<pipeVars, bulkVars, rankVars, statVars, reviewVars,
                       setVars, editVars>>

MvpNext ==
    \/ MvpStart
    \/ MvpGenerate
    \/ MvpUpdate
    \/ MvpRaceLost

MvpSpec == MvpInit /\ [][MvpNext]_vars

\* C22: whatever the interleaving of the calls, at most one call writes the
\* session's MVP fields, and a call never writes over fields that are set.
C22_MvpWrittenOnce ==
    /\ [](Len(mvWrites) <= 1)
    /\ [][mvSession' # mvSession =>
             /\ mvSession.mvpId.isNull
             /\ mvSession.mvpDescription.isNull
             /\ mvSession.mvpStats.isNull]_vars

(***************************************************************************)
(* EditSpec: session edit requests, their approval and rejection           *)
(***************************************************************************)
\* The session before any edit: one set with one match.
StoredSession ==
    [ sessionName |-> "a", sets |-> << [setId |-> 1, matches |-> <<1>>] >> ]

\* Proposed data with its dirty fields: a renamed session with new matches
\* for its set; one more set than the session has; a set the session lacks.
Proposals ==
    { [ dirtyName |-> TRUE, sessionName |-> "b",
        sets |-> << [setId |-> 1, matches |-> <<2, 3>>] >> ],
      [ dirtyName |-> FALSE, sessionName |-> "b",
        sets |-> << [setId |-> 1, matches |-> <<1>>],
                    [setId |-> 2, matches |-> <<4>>] >> ],
      [ dirtyName |-> TRUE, sessionName |-> "c",
        sets |-> << [setId |-> 7, matches |-> <<5>>] >> ] }

\* The rows a transaction reads and writes.
Db ==
    [ requests |-> edRequests, session |-> edSession,
      revisions |-> edRevisions, nextSetId |-> edNextSetId ]

EditInit ==
    /\ edRequests = <<>>
    /\ edSession = StoredSession
    /\ edRevisions = <<>>
    /\ edNextSetId = 2
    /\ edLast = [n |-> 0, op |-> "none", editId |-> 0, error |-> FALSE,
                 failAt |-> 0]
    /\ PipeIdle
    /\ BulkIdle
    /\ RankIdle
    /\ StatIdle
    /\ ReviewIdle
    /\ SetIdle
    /\ MvpIdle

\* createSessionEditRequest: the row is created with the default status.
EditCreate ==
    /\ Len(edRequests) < MaxEdits
    /\ \E p \in Proposals :
         edRequests' = Append(edRequests, [status |-> "PENDING", proposed |-> p])
    /\ UNCHANGED <<edSession, edRevisions, edNextSetId, edLast>>
    /\ UNCHANGED <<pipeVars, bulkVars, rankVars, statVars, reviewVars,
                   setVars, mvpVars>>

\* The session as the transaction selects it: its sets without their matches.
SessionSelect(session) ==
    [ sets |-> [ i \in 1..Len(session.sets) |-> session.sets[i].setId ] ]

createRevision(db) ==
    [db EXCEPT !.revisions = Append(@, [snapshot |-> SessionSelect(db.session)])]

markRequestApproved(db, id) ==
    [db EXCEPT !.requests[id].status = "APPROVED"]

applyTopLevelUpdates(db, proposed) ==
    IF proposed.dirtyName
    THEN [db EXCEPT !.session.sessionName = proposed.sessionName]
    ELSE db

\* deleteMany of the session's sets, then one gameSet.create per proposed set
\* with its matches.
replaceAllSets(db, proposedSets) ==
    [db EXCEPT
       !.session.sets = [ i \in 1..Len(proposedSets) |->
                            [ setId |-> db.nextSetId + i - 1,
                              matches |-> proposedSets[i].matches ] ],
       !.nextSetId = @ + Len(proposedSets)]

\* Every proposed set that the session has gets its matches replaced; a
\* proposed set the session lacks is skipped.
updateExistingSets(db, sessionSets, proposedSets) ==
    [db EXCEPT
       !.session.sets =
          [ i \in 1..Len(@) |->
              LET hits == { k \in 1..Len(proposedSets) :
                              /\ proposedSets[k].setId = @[i].setId
                              /\ \E e \in 1..Len(sessionSets) :
                                    sessionSets[e].setId = proposedSets[k].setId }
              IN  IF hits = {} THEN @[i]
                  ELSE [@[i] EXCEPT !.matches =
                          proposedSets[CHOOSE k \in hits :
                                          \A h \in hits : h <= k].matches] ]]

\* The callback of the transaction, run on the rows it started from.  failAt
\* names the write that throws (0: none); the rows written before it are in
\* the returned db.
ApproveRun(db, id, failAt) ==
    IF id \notin 1..Len(db.requests) THEN [ok |-> FALSE, db |-> db]
    ELSE IF db.requests[id].status # "PENDING" THEN [ok |-> FALSE, db |-> db]
    ELSE
      LET proposed == db.requests[id].proposed
          d1 == createRevision(db)
          d2 == markRequestApproved(d1, id)
          d3 == applyTopLevelUpdates(d2, proposed)
          d4 == IF Len(db.session.sets) # Len(proposed.sets)
                THEN replaceAllSets(d3, proposed.sets)
                ELSE updateExistingSets(d3, db.session.sets, proposed.sets)
      IN  IF failAt = 1 THEN [ok |-> FALSE, db |-> db]
          ELSE IF failAt = 2 THEN [ok |-> FALSE, db |-> d1]
          ELSE IF failAt = 3 THEN [ok |-> FALSE, db |-> d2]
          ELSE IF failAt = 4 THEN [ok |-> FALSE, db |-> d3]
          ELSE [ok |-> TRUE, db |-> d4]

TransactionOutcome_KeepsWrites(before, run) ==
    run.db

\* prisma.$transaction: the writes of a callback that throws are rolled back.
TransactionOutcome(before, run) ==
    IF run.ok THEN run.db ELSE before

\* approveEditRequest(editId, note)
EditApprove ==
    /\ edLast.n < MaxDecisions
    /\ \E id \in 1..(MaxEdits + 1), admin \in BOOLEAN, failAt \in 0..4 :
         IF ~admin
         THEN /\ edLast' = [n |-> edLast.n + 1, op |-> "approve", editId |-> id,
                            error |-> TRUE, failAt |-> 0]
              /\ UNCHANGED <<edRequests, edSession, edRevisions, edNextSetId>>
         ELSE LET run == ApproveRun(Db, id, failAt)
                  after == TransactionOutcome(Db, run)
              IN  /\ edRequests' = after.requests
                  /\ edSession' = after.session
                  /\ edRevisions' = after.revisions
                  /\ edNextSetId' = after.nextSetId
                  /\ edLast' = [n |-> edLast.n + 1, op |-> "approve",
                                editId |-> id, error |-> ~run.ok,
                                failAt |-> failAt]
    /\ UNCHANGED <<pipeVars, bulkVars, rankVars, statVars, reviewVars,
                   setVars, mvpVars>>

\* rejectEditRequest(editId, note): the update is keyed by id alone.
EditReject ==
    /\ edLast.n < MaxDecisions
    /\ \E id \in 1..(MaxEdits + 1), admin \in BOOLEAN :
         IF ~admin \/ id \notin 1..Len(edRequests)
         THEN /\ edLast' = [n |-> edLast.n + 1, op |-> "reject", editId |-> id,
                            error |-> TRUE, failAt |-> 0]
              /\ UNCHANGED edRequests
         ELSE /\ edRequests' = [edRequests EXCEPT ![id].status = "REJECTED"]
              /\ edLast' = [n |-> edLast.n + 1, op |-> "reject", editId |-> id,
                            error |-> FALSE, failAt |-> 0]
    /\ UNCHANGED <<edSession, edRevisions, edNextSetId>>
    /\ UNCHANGED <<pipeVars, bulkVars, rankVars, statVars, reviewVars,
                   setVars, mvpVars>>

EditNext ==
    \/ EditCreate
    \/ EditApprove
    \/ EditReject

EditSpec == EditInit /\ [][EditNext]_vars

WasPending(id) ==
    /\ id \in 1..Len(edRequests)
    /\ edRequests[id].status = "PENDING"

\* C23: approving an edit request takes effect only on a request that exists
\* and is PENDING, and then entirely: a call that returns without error found
\* the request PENDING and leaves it APPROVED with one more revision; a call
\* on a missing or decided request, or one in which a write fails, returns an
\* error and leaves the requests, the session with its sets and matches, and
\* the revisions as they were.
C23_ApproveAllOrNothing ==
    [][(edLast'.n # edLast.n /\ edLast'.op = "approve") =>
         LET id == edLast'.editId IN
         /\ (~WasPending(id) \/ edLast'.failAt # 0) =>
               /\ edLast'.error
               /\ UNCHANGED <<edRequests, edSession, edRevisions>>
         /\ edLast'.error => UNCHANGED <<edRequests, edSession, edRevisions>>
         /\ ~edLast'.error =>
               /\ WasPending(id)
               /\ edRequests'[id].status = "APPROVED"
               /\ edRevisions' = Append(edRevisions,
                                        [snapshot |-> SessionSelect(edSession)])]_vars

\* An approval whose last write failed on a PENDING request: the request is
\* still PENDING and no revision exists.
C23_Witness ==
    /\ edLast.op = "approve"
    /\ edLast.error
    /\ edLast.failAt = 4
    /\ edLast.editId \in 1..Len(edRequests)
    /\ edRequests[edLast.editId].status = "PENDING"
    /\ edRequests[edLast.editId].proposed.dirtyName
    /\ edRevisions = <<>>
    /\ edSession = StoredSession

\* C26: a request that has been decided keeps its status: once APPROVED or
\* REJECTED, no later call changes it.
C26_DecidedIsFinal ==
    [][\A id \in 1..Len(edRequests) :
          edRequests[id].status \in {"APPROVED", "REJECTED"} =>
             edRequests'[id].status = edRequests[id].status]_vars

(***************************************************************************)
(* SetSpec: SetManager, the form's sets with the bulk review modal         *)
(***************************************************************************)
\* The results a bulk upload hands over: as ReviewResults, any of them
\* without data.
BulkResults ==
    { [ i \in 1..n |-> IF i \in bare
                       THEN [ReviewResult(i) EXCEPT !.data = NoData]
                       ELSE ReviewResult(i) ] :
        n \in 0..MaxBulk, bare \in { {}, {1} } }

\* Match | null
NoMatch == [isNull |-> TRUE, match |-> [matchWinners |-> 0, playerSessions |-> 0]]

convertResultToMatch(res) ==
    IF res.data = NoData THEN NoMatch
    ELSE [ isNull |-> FALSE,
           match |-> [ matchWinners |-> res.data.src,
                       playerSessions |-> res.data.src ] ]

\* results.map(convertResultToMatch).filter((m) => m !== null)
MatchesOf(results) ==
    LET converted == [ k \in 1..Len(results) |-> convertResultToMatch(results[k]) ]
        kept == SelectSeq(converted, LAMBDA m : ~m.isNull)
    IN  [ k \in 1..Len(kept) |-> kept[k].match ]

\* The sets a form starts with: numbered 1..n, the first holding a match.
FormSets(n) ==
    [ i \in 1..n |->
        [ setId |-> i,
          matches |-> IF i = 1
                      THEN << [matchWinners |-> 9, playerSessions |-> 9] >>
                      ELSE <<>> ] ]

SetIds(sets) == [ i \in 1..Len(sets) |-> sets[i].setId ]

SetInit ==
    /\ \E n \in 0..2 :
         /\ smSets = FormSets(n)
         /\ smHighestSetId = n
    /\ smConfirms = 0
    /\ rvResults = <<>>
    /\ rvExisting = <<>>
    /\ rvOpen = FALSE
    /\ rvSetOptions = <<>>
    /\ rvNextNewSetId = 1
    /\ rvAssignments = <<>>
    /\ rvPicked = <<>>
    /\ rvConfirmed = <<>>
    /\ PipeIdle
    /\ BulkIdle
    /\ RankIdle
    /\ StatIdle
    /\ MvpIdle
    /\ EditIdle

\* handleAddSet with the new set numbered by the count of sets.
handleAddSet_CountsFields(sets, highestSetId) ==
    [ sets |-> Append(sets, [setId |-> Len(sets) + 1, matches |-> <<>>]),
      highestSetId |-> Len(sets) + 1 ]

\* handleAddSet of SetManager
handleAddSet(sets, highestSetId) ==
    [ sets |-> Append(sets, [setId |-> highestSetId + 1, matches |-> <<>>]),
      highestSetId |-> highestSetId + 1 ]

\* The Add Set button of the form; the open review dialog covers it.
SetAdd ==
    /\ ~rvOpen
    /\ smHighestSetId < MaxSetId
    /\ LET after == handleAddSet(smSets, smHighestSetId)
       IN  /\ smSets' = after.sets
           /\ smHighestSetId' = after.highestSetId
    /\ UNCHANGED smConfirms
    /\ UNCHANGED <<pipeVars, bulkVars, rankVars, statVars, reviewVars,
                   mvpVars, editVars>>

\* remove(setIndex) of the trash icon of a set
SetDelete ==
    /\ ~rvOpen
    /\ \E setIndex \in 1..Len(smSets) :
         smSets' = [ i \in 1..(Len(smSets) - 1) |->
                       IF i < setIndex THEN smSets[i] ELSE smSets[i + 1] ]
    /\ UNCHANGED <<smHighestSetId, smConfirms>>
    /\ UNCHANGED <<pipeVars, bulkVars, rankVars, statVars, reviewVars,
                   mvpVars, editVars>>

\* handleBulkProcessingComplete: the review modal opens on the results and
\* its content mounts with the form's sets and highestSetId as props.
SetOpenReview ==
    /\ ~rvOpen
    /\ smConfirms < MaxRounds
    /\ smHighestSetId + MaxNewSets <= MaxSetId
    /\ \E results \in BulkResults :
         /\ rvResults' = results
         /\ rvAssignments' = [ i \in 1..Len(results) |->
                                 [resultId |-> results[i].id, setId |-> NoSet] ]
         /\ rvPicked' = [ i \in 1..Len(results) |-> NoSet ]
    /\ rvOpen' = TRUE
    /\ rvExisting' = SetIds(smSets)
    /\ rvSetOptions' = initialSetOptions(SetIds(smSets))
    /\ rvNextNewSetId' = smHighestSetId + 1
    /\ UNCHANGED rvConfirmed
    /\ UNCHANGED <<pipeVars, bulkVars, rankVars, statVars,
                   setVars, mvpVars, editVars>>

\* assignments.get(setId) || []
ResultsFor(assignments, setId) ==
    IF \E g \in 1..Len(assignments) : assignments[g].setId = setId
    THEN assignments[CHOOSE g \in 1..Len(assignments) :
                        assignments[g].setId = setId].results
    ELSE <<>>

\* currentSets.findIndex((s) => s.setId === setId), 0 for -1
FindSetIndex(sets, setId) ==
    IF \E i \in 1..Len(sets) : sets[i].setId = setId
    THEN CHOOSE i \in 1..Len(sets) :
            /\ sets[i].setId = setId
            /\ \A j \in 1..(i - 1) : sets[j].setId # setId
    ELSE 0

Includes(seq, x) == \E i \in 1..Len(seq) : seq[i] = x

\* The matches an existing set is given, with the upload's matches in place
\* of the ones it held.
ExtendMatches_Replaces(currentMatches, matches) ==
    matches

\* [...currentMatches, ...matches]
ExtendMatches(currentMatches, matches) ==
    currentMatches \o matches

\* handleBulkReviewConfirm(assignments, newSetIds) on the form's sets
handleBulkReviewConfirm(currentSets, highestSetId, assignments, newSetIds) ==
    LET created == SelectSeq(newSetIds,
                      LAMBDA newSetId : FindSetIndex(currentSets, newSetId) = 0)
        newSetsToAppend ==
            [ k \in 1..Len(created) |->
                [ setId |-> created[k],
                  matches |-> MatchesOf(ResultsFor(assignments, created[k])) ] ]
        above == { created[k] : k \in 1..Len(created) } \cup {highestSetId}
        updatedHighestSetId == CHOOSE h \in above : \A o \in above : o <= h
        updated ==
            [ i \in 1..Len(currentSets) |->
                LET setId == currentSets[i].setId IN
                IF /\ \E g \in 1..Len(assignments) : assignments[g].setId = setId
                   /\ ~Includes(newSetIds, setId)
                   /\ FindSetIndex(currentSets, setId) = i
                THEN [currentSets[i] EXCEPT !.matches =
                        ExtendMatches(@, MatchesOf(ResultsFor(assignments, setId)))]
                ELSE currentSets[i] ]
    IN  [ sets |-> updated \o newSetsToAppend,
          highestSetId |-> updatedHighestSetId ]

\* The modal's content unmounts with the closed modal and loses its state.
Unmount ==
    /\ rvOpen' = FALSE
    /\ rvResults' = <<>>
    /\ rvExisting' = <<>>
    /\ rvSetOptions' = <<>>
    /\ rvNextNewSetId' = 1
    /\ rvAssignments' = <<>>
    /\ rvPicked' = <<>>

\* The Confirm button: handleConfirm of the modal groups the assignments and
\* calls onConfirm, which is handleBulkReviewConfirm; that updates the form
\* and closes the modal.
SetConfirm ==
    /\ Mounted
    /\ canConfirm
    /\ IF unassignedCount(rvAssignments) > 0
       THEN UNCHANGED <<setVars, reviewVars>>
       ELSE LET after == handleBulkReviewConfirm(smSets, smHighestSetId,
                            GroupAssignments(rvAssignments, rvResults,
                                             Len(rvAssignments)),
                            NewSetIds(rvSetOptions))
            IN  /\ smSets' = after.sets
                /\ smHighestSetId' = after.highestSetId
                /\ smConfirms' = smConfirms + 1
                /\ Unmount
                /\ UNCHANGED rvConfirmed
    /\ UNCHANGED <<pipeVars, bulkVars, rankVars, statVars, mvpVars, editVars>>

\* onClose of the modal as SetManager passes it
SetClose ==
    /\ rvOpen
    /\ Unmount
    /\ UNCHANGED rvConfirmed
    /\ UNCHANGED <<pipeVars, bulkVars, rankVars, statVars,
                   setVars, mvpVars, editVars>>

SetNext ==
    \/ SetAdd
    \/ SetDelete
    \/ SetOpenReview
    \/ ReviewAddSet
    \/ ReviewAssign
    \/ SetConfirm
    \/ SetClose

SetSpec == SetInit /\ [][SetNext]_vars

\* The places in the form after a confirmation that hold a match the
\* confirmation put there: beyond the matches a set held before, or in a set
\* that was not there before.
AddedPlaces ==
    UNION { { <<j, m>> : m \in { m \in 1..Len(smSets'[j].matches) :
                                   j <= Len(smSets) => m > Len(smSets[j].matches) } } :
            j \in 1..Len(smSets') }

C25_SetIdsDistinct ==
    \A i, j \in 1..Len(smSets) :
       i # j => smSets[i].setId # smSets[j].setId

\* The first set was deleted, a set was added in the form and another in the
\* modal, and the confirmation appended it with a match.
C25_Witness ==
    /\ smConfirms >= 1
    /\ Len(smSets) >= 3
    /\ smSets[1].setId > 1
    /\ smSets[Len(smSets)].matches # <<>>
    /\ smSets[Len(smSets) - 1].matches = <<>>
    /\ smHighestSetId = smSets[Len(smSets)].setId

====
